---- MODULE Spec2Model ----
(***************************************************************************)
(* angel_email: synchronisation of a remote mailbox into .eml files,       *)
(* attachment files and an SQLite index.                                   *)
(*                                                                         *)
(* The module models main() of src/angel_email/__init__.py as a process    *)
(* that walks the candidate message ids, with one action per call it       *)
(* makes, together with the file system, the SQLite database (the rows     *)
(* that are committed and the rows the open connection sees) and the       *)
(* remote mailbox.  Several runs of main() follow each other on the same   *)
(* disk.                                                                   *)
(***************************************************************************)
EXTENDS Integers, Sequences, FiniteSets, TLC

(***************************************************************************)
(* Bounds of the model.                                                    *)
(***************************************************************************)
\* number of runs of main() on the same disk
MaxRuns == 2
\* longest candidate list list_message_ids returns in one run
MaxMsgs == 2
\* most exceptions and interrupts the environment raises in one behaviour
MaxFaults == 1

\* Python's None for the string-valued fields
None == "None"

\* the external (Gmail) ids of the mailbox
Mids == {"m1", "m2"}

(***************************************************************************)
(* Sequence helpers.                                                       *)
(***************************************************************************)
Range(s) == {s[i] : i \in DOMAIN s}

\* the elements of s at the positions of keep, in order
RECURSIVE SelectIdx(_, _)
SelectIdx(s, keep) ==
    IF s = <<>> THEN <<>>
    ELSE LET rest == SelectIdx(Tail(s), {i - 1 : i \in keep \ {1}})
         IN IF 1 \in keep THEN <<Head(s)>> \o rest ELSE rest

(***************************************************************************)
(* File names.  A name is  base, then "_N" for every N of sfx, then ext:   *)
(* [base |-> "f", sfx |-> <<1>>, ext |-> ".txt"] is "f_1.txt".  Path.stem  *)
(* is base with the suffixes, Path.suffix is ext.                          *)
(***************************************************************************)
FName(base, sfx, ext) == [base |-> base, sfx |-> sfx, ext |-> ext]

\* part.get_filename() returning None
NoFilename == FName(None, <<>>, "")

\* str.upper() on the base names the model uses
Upper(s) ==
    CASE s = "eml*oecustomproperty_x" -> "EML*OECUSTOMPROPERTY_X"
      [] s = "x_EML*OECUSTOMHTML" -> "X_EML*OECUSTOMHTML"
      [] OTHER -> s

\* the base names whose upper case contains one of _OUTLOOK_JUNK_PREFIXES
ContainsJunkPrefix(upper) ==
    upper \in {"EML*OECUSTOMPROPERTY_X", "X_EML*OECUSTOMHTML", "EML*OECUSTOMPROPERTY"}

\* a filename that Python treats as true: neither None nor ""
Truthy(filename) == filename # NoFilename /\ filename.base # ""

\* a test for the tokens that leaves the letters of the filename as they are
IsJunkAsWritten(filename) == ContainsJunkPrefix(filename.base)

IsJunk(filename) == ContainsJunkPrefix(Upper(filename.base))

(***************************************************************************)
(* Messages.  A raw message is what email.message_from_bytes makes of the  *)
(* bytes: the header lines in order, whether the root is multipart, and    *)
(* the leaves in the order msg.walk() yields them (for a message that is   *)
(* not multipart, the one leaf is the message itself).  A leaf carries     *)
(*   ctype       get_content_type()                                        *)
(*   disp        the Content-Disposition header, lower-cased ("" if none)  *)
(*   filename    get_filename()                                            *)
(*   content_ok  get_content() returns; content is str() of what it gives  *)
(*   payload_ok  get_payload(decode=True) returns; data is the bytes and   *)
(*               decoded is data.decode(charset, errors="replace")         *)
(***************************************************************************)
Leaf(ctype, disp, filename, content_ok, content, payload_ok, data, decoded) ==
    [ctype |-> ctype, disp |-> disp, filename |-> filename,
     content_ok |-> content_ok, content |-> content,
     payload_ok |-> payload_ok, data |-> data, decoded |-> decoded]

TextLeaf(ctype, text) == Leaf(ctype, "", NoFilename, TRUE, text, TRUE, <<1>>, text)

FileLeaf(disp, filename, data) ==
    Leaf("application/pdf", disp, filename, TRUE, "bin", TRUE, data, "bin")

\* msg.get(name): the first header line of that name, or None
get_header(hdrs, name) ==
    IF \E i \in DOMAIN hdrs : hdrs[i][1] = name
    THEN hdrs[CHOOSE i \in DOMAIN hdrs :
                  /\ hdrs[i][1] = name
                  /\ \A j \in DOMAIN hdrs : hdrs[j][1] = name => i <= j][2]
    ELSE None

\* {k: str(v) for (k, v) in msg.items()}: a dict keeps a key at the place of
\* its first insertion and the value of its last
headers_dict(hdrs) ==
    LET first == {i \in DOMAIN hdrs : \A j \in DOMAIN hdrs : hdrs[j][1] = hdrs[i][1] => i <= j}
        keys == SelectIdx(hdrs, first)
        last(name) == CHOOSE i \in DOMAIN hdrs :
                          /\ hdrs[i][1] = name
                          /\ \A j \in DOMAIN hdrs : hdrs[j][1] = name => j <= i
    IN [k \in DOMAIN keys |-> <<keys[k][1], hdrs[last(keys[k][1])][2]>>]

\* the payload extract_bodies works with for one part of a multipart message
BodyPayloadMultipart(part) ==
    IF part.content_ok THEN part.content
    ELSE IF part.payload_ok THEN part.decoded
    ELSE None

\* the first part, in walk order, of that content type with a payload
RECURSIVE FirstBody(_, _)
FirstBody(leaves, ctype) ==
    IF leaves = <<>> THEN None
    ELSE IF Head(leaves).ctype = ctype /\ BodyPayloadMultipart(Head(leaves)) # None
         THEN BodyPayloadMultipart(Head(leaves))
         ELSE FirstBody(Tail(leaves), ctype)

\* extract_bodies: [ok, text_body, html_body]; ok is FALSE when it raises
extract_bodies(msg) ==
    IF msg.multipart
    THEN [ok |-> TRUE,
          text_body |-> FirstBody(msg.leaves, "text/plain"),
          html_body |-> FirstBody(msg.leaves, "text/html")]
    ELSE LET part == msg.leaves[1]
             raises == ~part.content_ok /\ ~part.payload_ok
             payload == IF part.content_ok THEN part.content ELSE part.decoded
         IN [ok |-> ~raises,
             text_body |-> IF part.ctype = "text/plain" /\ ~raises THEN payload ELSE None,
             html_body |-> IF part.ctype = "text/html" /\ ~raises THEN payload ELSE None]

\* one attachment dict of extract_attachments
AttachmentOf(part) ==
    [filename |-> part.filename, content_type |-> part.ctype,
     data |-> part.data, size |-> Len(part.data)]

\* whether extract_attachments appends the part of a multipart message
EmitsMultipart(part) ==
    LET is_attachment == \/ part.disp = "attachment"
                         \/ (part.disp = "inline" /\ Truthy(part.filename))
                         \/ part.filename # NoFilename
    IN /\ ~(Truthy(part.filename) /\ IsJunk(part.filename))
       /\ is_attachment
       /\ Truthy(part.filename)
       /\ part.payload_ok
       /\ part.data # <<>>

\* whether extract_attachments appends a message that is not multipart
EmitsSingle(part) ==
    LET is_attachment == \/ part.disp = "attachment"
                         \/ (part.disp = "inline" /\ Truthy(part.filename))
    IN /\ ~(Truthy(part.filename) /\ IsJunk(part.filename))
       /\ is_attachment
       /\ Truthy(part.filename)
       /\ part.payload_ok
       /\ part.data # <<>>

extract_attachments(msg) ==
    LET keep == {i \in DOMAIN msg.leaves :
                    IF msg.multipart THEN EmitsMultipart(msg.leaves[i])
                    ELSE EmitsSingle(msg.leaves[i])}
        parts == SelectIdx(msg.leaves, keep)
    IN [k \in DOMAIN parts |-> AttachmentOf(parts[k])]

(***************************************************************************)
(* The messages and the metadata the transport may hand out for an id.     *)
(* The raw bytes of a message are a name; message_from_bytes gives what    *)
(* the email package makes of them.                                        *)
(***************************************************************************)
FullHdrs ==
    << <<"Message-ID", "<1@x>">>, <<"Subject", "s1">>, <<"From", "a@x">>,
       <<"To", "b@x">>, <<"Cc", "c@x">>, <<"Bcc", "d@x">>,
       <<"Date", "Mon, 01 Jan 2024 10:00:05 +0000">>, <<"Subject", "s2">> >>

\* multipart: two bodies and two attachments of the same name
MsgTwoAtt ==
    [hdrs |-> FullHdrs, multipart |-> TRUE,
     leaves |-> << TextLeaf("text/plain", "hello"), TextLeaf("text/html", "<p>"),
                   FileLeaf("attachment", FName("f", <<>>, ".pdf"), <<1, 2>>),
                   FileLeaf("attachment", FName("f", <<>>, ".pdf"), <<3>>) >>]

\* the same message with one attachment fewer and a Date that does not parse
MsgOneAtt ==
    [hdrs |-> [FullHdrs EXCEPT ![7] = <<"Date", "not a date">>], multipart |-> TRUE,
     leaves |-> << TextLeaf("text/plain", "hello"), TextLeaf("text/html", "<p>"),
                   FileLeaf("attachment", FName("f", <<>>, ".pdf"), <<1, 2>>) >>]

\* no header at all and a body that cannot be decoded: every field is None
MsgBare ==
    [hdrs |-> <<>>, multipart |-> TRUE,
     leaves |-> << Leaf("text/plain", "", NoFilename, FALSE, "", FALSE, <<>>, "") >>]

\* not multipart, and neither get_content nor get_payload can decode it
MsgUndecodable ==
    [hdrs |-> << <<"Date", "not a date">> >>, multipart |-> FALSE,
     leaves |-> << Leaf("text/plain", "", NoFilename, FALSE, "", FALSE, <<>>, "") >>]

\* the raw bytes of no message
NoRaw == ""

\* email.message_from_bytes(raw_bytes, policy=policy.default)
message_from_bytes(raw_bytes) ==
    CASE raw_bytes = "two_att" -> MsgTwoAtt
      [] raw_bytes = "one_att" -> MsgOneAtt
      [] raw_bytes = "bare" -> MsgBare
      [] raw_bytes = "undecodable" -> MsgUndecodable
      [] OTHER -> [hdrs |-> <<>>, multipart |-> FALSE, leaves |-> <<>>]

\* parse_message_object: the parsed dict, and ok (FALSE when it raises)
parse_message_object(raw_bytes) ==
    LET msg == message_from_bytes(raw_bytes)
        bodies == extract_bodies(msg)
    IN [ok |-> bodies.ok,
        message_id |-> get_header(msg.hdrs, "Message-ID"),
        subject |-> get_header(msg.hdrs, "Subject"),
        from_ |-> get_header(msg.hdrs, "From"),
        to |-> get_header(msg.hdrs, "To"),
        cc |-> get_header(msg.hdrs, "Cc"),
        bcc |-> get_header(msg.hdrs, "Bcc"),
        date |-> get_header(msg.hdrs, "Date"),
        text_body |-> bodies.text_body,
        html_body |-> bodies.html_body,
        headers |-> headers_dict(msg.hdrs)]

\* list_labels(): label name -> label id, before the done-label is created
BaseLabelMap == ("A" :> "idA") @@ ("B" :> "idB")

\* users.messages.get(format="metadata"): idX is a label id in no label map
Meta(threadId, snippet, labelIds) ==
    [threadId |-> threadId, snippet |-> snippet, labelIds |-> labelIds]

\* what get_message_raw and get_message_metadata may answer for an id
Responses ==
    {[raw |-> "two_att", meta |-> Meta("t1", "sn", <<"idA">>)],
     [raw |-> "one_att", meta |-> Meta("t2", "sn", <<"idX", "idB", "idA">>)],
     [raw |-> "bare", meta |-> Meta(None, None, <<>>)],
     [raw |-> "undecodable", meta |-> Meta("t1", "sn", <<"idA", "idB">>)]}

\* --labels, split at the commas: two labels of the mailbox (with blanks
\* around them or not), nothing but a blank, and a label the mailbox lacks
LabelNameChoices == {<<"A", "B">>, <<" A", "B ">>, <<" ">>, <<"A", "Z">>}

\* str.strip() on the names the model uses
Strip(name) ==
    CASE name = " " -> ""
      [] name = " A" -> "A"
      [] name = "B " -> "B"
      [] name = " Z " -> "Z"
      [] OTHER -> name

\* [s.strip() for s in args.labels.split(",") if s.strip()]
label_names_of(labels) ==
    LET kept == SelectIdx(labels, {i \in DOMAIN labels : Strip(labels[i]) # ""})
    IN [i \in DOMAIN kept |-> Strip(kept[i])]

\* a resolve_label_ids whose error lists every requested name
ResolveReportsAll(names, label_map) ==
    LET stripped == [i \in DOMAIN names |-> Strip(names[i])]
        kept == SelectIdx(stripped, {i \in DOMAIN stripped : stripped[i] # ""})
        found == SelectIdx(kept, {i \in DOMAIN kept : kept[i] \in DOMAIN label_map})
    IN [ok |-> Len(found) = Len(kept),
        ids |-> [i \in DOMAIN found |-> label_map[found[i]]],
        missing |-> IF Len(found) = Len(kept) THEN <<>> ELSE kept]

\* resolve_label_ids: ok is FALSE when it raises ValueError, and missing is
\* then the list of names of its message "Labels not found: ..."
resolve_label_ids(names, label_map) ==
    LET stripped == [i \in DOMAIN names |-> Strip(names[i])]
        found == SelectIdx(stripped, {i \in DOMAIN stripped :
                                         stripped[i] # "" /\ stripped[i] \in DOMAIN label_map})
        missing == SelectIdx(stripped, {i \in DOMAIN stripped :
                                           stripped[i] # "" /\ stripped[i] \notin DOMAIN label_map})
    IN [ok |-> missing = <<>>,
        ids |-> [i \in DOMAIN found |-> label_map[found[i]]],
        missing |-> missing]

\* --mark-downloaded
DoneLabelChoices == {None, "D"}

(***************************************************************************)
(* The query of list_message_ids (lines 152-157).  A string is the         *)
(* sequence of its characters; an argument that was not given is None.     *)
(***************************************************************************)
Str(text) == [given |-> TRUE, text |-> text]
NoStr == [given |-> FALSE, text |-> <<>>]

\* what "if s:" tests for an optional string
TruthyStr(s) == s.given /\ s.text # <<>>

\* "-label:"
MinusLabel == <<"-", "l", "a", "b", "e", "l", ":">>

\* a query that puts the space before the clause whatever --query is
CombinedAlwaysJoined(query, downloaded_label_name) ==
    IF ~TruthyStr(downloaded_label_name) THEN query
    ELSE LET name == downloaded_label_name.text
             escaped_label == IF " " \in Range(name) THEN <<"\"">> \o name \o <<"\"">> ELSE name
             exclude_q == MinusLabel \o escaped_label
         IN Str(query.text \o <<" ">> \o exclude_q)

\* combined_q of main()
combined_q(query, downloaded_label_name) ==
    IF ~TruthyStr(downloaded_label_name) THEN query
    ELSE LET name == downloaded_label_name.text
             escaped_label == IF " " \in Range(name) THEN <<"\"">> \o name \o <<"\"">> ELSE name
             exclude_q == MinusLabel \o escaped_label
         IN IF TruthyStr(query) THEN Str(query.text \o <<" ">> \o exclude_q)
            ELSE Str(exclude_q)

\* the mailbox lists its messages in this order
Mailbox == <<"m1", "m2">>

(***************************************************************************)
(* The SQLite index.  A database value holds the three tables:             *)
(*   emails        the rows, a set; a row carries its AUTOINCREMENT id     *)
(*   attachments   the rows in rowid order                                 *)
(*   email_labels  the rows, a set: (email_id, label_name) is the key      *)
(*   seq           the largest emails.id handed out (sqlite_sequence)      *)
(* dbDisk is what is committed to the file; dbConn is what the open        *)
(* connection sees: dbDisk plus the statements executed since its last     *)
(* commit.  Python's sqlite3 opens a transaction before an INSERT, UPDATE  *)
(* or DELETE and keeps it open until commit(); close() rolls it back.      *)
(***************************************************************************)
EmptyDb == [emails |-> {}, attachments |-> <<>>, email_labels |-> {}, seq |-> 0]

\* strftime("%Y/%m/%d %H:%M") of parsedate_to_datetime, for the date headers
\* of the model that parse
ParsedDate(raw_date) ==
    CASE raw_date = "Mon, 01 Jan 2024 10:00:05 +0000" -> "2024/01/01 10:00"
      [] OTHER -> raw_date

\* whether parsedate_to_datetime returns for that header
Parses(raw_date) == raw_date \in {"Mon, 01 Jan 2024 10:00:05 +0000"}

normalize_date(raw_date) ==
    IF raw_date = None \/ raw_date = "" THEN raw_date
    ELSE IF Parses(raw_date) THEN ParsedDate(raw_date)
    ELSE raw_date

EmailColumns ==
    {"gmail_id", "thread_id", "message_id", "subject", "from_addr", "to_addrs",
     "cc_addrs", "bcc_addrs", "date", "snippet", "text_body", "html_body",
     "headers_json", "raw_eml_path"}

\* the column values upsert_email binds, from its keyword arguments:
\* json.dumps(headers or {}) keeps the dict's items in order, str(path) the path
EmailValues(a) ==
    [gmail_id |-> a.gmail_id, thread_id |-> a.thread_id, message_id |-> a.message_id,
     subject |-> a.subject, from_addr |-> a.from_addr, to_addrs |-> a.to_addrs,
     cc_addrs |-> a.cc_addrs, bcc_addrs |-> a.bcc_addrs,
     date |-> normalize_date(a.date), snippet |-> a.snippet,
     text_body |-> a.text_body, html_body |-> a.html_body,
     headers_json |-> a.headers, raw_eml_path |-> a.raw_eml_path]

\* a row of emails: the columns, the id and created_at
EmailRow(id, created_at, v) ==
    [c \in EmailColumns \cup {"id", "created_at"} |->
        IF c = "id" THEN id ELSE IF c = "created_at" THEN created_at ELSE v[c]]

\* CURRENT_TIMESTAMP, in seconds, at a statement on db: the clock does not go
\* back, and a statement may fall into the second of the latest row or into
\* a later one
CurrentTimestamps(db) ==
    LET latest == IF db.emails = {} THEN 0
                  ELSE CHOOSE t \in {r.created_at : r \in db.emails} :
                           \A r \in db.emails : r.created_at <= t
    IN {latest, latest + 1} \ {0}

\* an upsert that keeps the old value of a column the new values give as None
UpsertKeepsOldOnNone(db, a, now) ==
    LET v == EmailValues(a)
        hit == {r \in db.emails : r.gmail_id = a.gmail_id}
        merged(r) == [c \in EmailColumns |->
                         IF c \notin {"headers_json", "raw_eml_path"} /\ v[c] = None
                         THEN r[c] ELSE v[c]]
    IN IF hit # {}
       THEN [db EXCEPT !.emails = (db.emails \ hit) \cup {EmailRow(r.id, r.created_at, merged(r)) : r \in hit}]
       ELSE [db EXCEPT !.emails = db.emails \cup {EmailRow(db.seq + 1, now, v)},
                       !.seq = db.seq + 1]

\* the INSERT ... ON CONFLICT(gmail_id) DO UPDATE SET ... of upsert_email;
\* created_at takes its default, now, when the row is inserted and is not
\* among the columns the update sets
UpsertStatement(db, a, now) ==
    LET v == EmailValues(a)
        hit == {r \in db.emails : r.gmail_id = a.gmail_id}
    IN IF hit # {}
       THEN [db EXCEPT !.emails = (db.emails \ hit) \cup {EmailRow(r.id, r.created_at, v) : r \in hit}]
       ELSE [db EXCEPT !.emails = db.emails \cup {EmailRow(db.seq + 1, now, v)},
                       !.seq = db.seq + 1]

\* get_email_id_by_gmail_id: fetchone() of the ids, 0 for None
get_email_id_by_gmail_id(db, gmail_id) ==
    LET ids == {r.id : r \in {x \in db.emails : x.gmail_id = gmail_id}}
    IN IF ids = {} THEN 0 ELSE CHOOSE i \in ids : \A j \in ids : i <= j

\* DELETE FROM attachments WHERE email_id = ?
DeleteAttachmentsStatement(db, email_id) ==
    [db EXCEPT !.attachments =
        SelectIdx(db.attachments,
                  {i \in DOMAIN db.attachments : db.attachments[i].email_id # email_id})]

\* the INSERT of insert_attachment
InsertAttachmentStatement(db, email_id, filename, content_type, size, file_path) ==
    [db EXCEPT !.attachments =
        Append(db.attachments,
               [email_id |-> email_id, filename |-> filename,
                content_type |-> content_type, size |-> size, file_path |-> file_path])]

\* the DELETE and the INSERTs of insert_email_labels
ReplaceLabelsStatements(db, email_id, labels) ==
    [db EXCEPT !.email_labels =
        {r \in db.email_labels : r.email_id # email_id}
        \cup {[email_id |-> email_id, label_name |-> labels[i][1], label_id |-> labels[i][2]] :
                i \in DOMAIN labels}]

\* the attachment rows of the message with that gmail id, in rowid order
AttachmentRows(db, gmail_id) ==
    LET id == get_email_id_by_gmail_id(db, gmail_id)
    IN SelectIdx(db.attachments, {i \in DOMAIN db.attachments : db.attachments[i].email_id = id})

\* the (label_name, label_id) pairs of the message with that gmail id
LabelRows(db, gmail_id) ==
    LET id == get_email_id_by_gmail_id(db, gmail_id)
    IN {<<r.label_name, r.label_id>> : r \in {x \in db.email_labels : x.email_id = id}}

\* the emails rows of that gmail id
EmailRows(db, gmail_id) == {r \in db.emails : r.gmail_id = gmail_id}

(***************************************************************************)
(* The file system under --emails-dir.                                     *)
(*   fsEml      <<label, gmail_id>> -> the bytes of <label>/<gmail_id>.eml *)
(*   fsAttDirs  the <<label, gmail_id>> whose directory                    *)
(*              <label>/attachments/<gmail_id> exists                      *)
(*   fsAtt      [dir, mid, name] -> the bytes of the attachment file       *)
(***************************************************************************)
AttPath(label, gmail_id, name) == [dir |-> label, mid |-> gmail_id, name |-> name]

\* f with x mapped to v (a file written, created or overwritten)
Put(f, x, v) == [y \in DOMAIN f \cup {x} |-> IF y = x THEN v ELSE f[y]]

\* f without the keys in gone
Drop(f, gone) == [y \in DOMAIN f \ gone |-> f[y]]

\* the while loop of save_attachment: the first name that does not exist
RECURSIVE FreeName(_, _, _, _)
FreeName(existing, candidate, original, counter) ==
    IF candidate \notin existing THEN candidate
    ELSE FreeName(existing,
                  FName(original.base, Append(original.sfx, counter), original.ext),
                  original, counter + 1)

\* a save_attachment that tries one suffix and writes there
SuffixOnce(att_files, label, gmail_id, filename) ==
    LET existing == {p.name : p \in {q \in DOMAIN att_files : q.dir = label /\ q.mid = gmail_id}}
    IN AttPath(label, gmail_id,
               IF filename \in existing
               THEN FName(filename.base, Append(filename.sfx, 1), filename.ext)
               ELSE filename)

\* save_attachment: the path it writes
save_attachment_path(att_files, label, gmail_id, filename) ==
    LET existing == {p.name : p \in {q \in DOMAIN att_files : q.dir = label /\ q.mid = gmail_id}}
    IN AttPath(label, gmail_id, FreeName(existing, filename, filename, 1))

\* a clear_attachments_dir that removes nothing
ClearsNothing(att_files, label, gmail_id) == att_files

\* clear_attachments_dir: shutil.rmtree of the directory, if it exists
clear_attachments_dir(att_files, label, gmail_id) ==
    Drop(att_files, {p \in DOMAIN att_files : p.dir = label /\ p.mid = gmail_id})

(***************************************************************************)
(* The choice of the destination folder (lines 172-178 of main).           *)
(***************************************************************************)
\* {v: k for k, v in label_map.items()}
Inverse(label_map) ==
    [lid \in {label_map[n] : n \in DOMAIN label_map} |->
        CHOOSE n \in DOMAIN label_map : label_map[n] = lid]

\* the for loop over msg_label_ids with its break
RECURSIVE FirstReported(_, _, _, _)
FirstReported(msg_label_ids, id_to_name, label_names, default) ==
    IF msg_label_ids = <<>> THEN default
    ELSE LET label_id == Head(msg_label_ids)
             label_name == IF label_id \in DOMAIN id_to_name THEN id_to_name[label_id] ELSE ""
         IN IF label_name \in Range(label_names) THEN label_name
            ELSE FirstReported(Tail(msg_label_ids), id_to_name, label_names, default)

primary_label_of(label_names, msg_label_ids, id_to_name) ==
    FirstReported(msg_label_ids, id_to_name, label_names, label_names[1])

\* the label_tuples list comprehension (lines 214-218 of main)
label_tuples_of(msg_label_ids, id_to_name) ==
    LET known == SelectIdx(msg_label_ids,
                           {i \in DOMAIN msg_label_ids : msg_label_ids[i] \in DOMAIN id_to_name})
    IN [i \in DOMAIN known |-> <<id_to_name[known[i]], known[i]>>]

(***************************************************************************)
(* State.                                                                  *)
(***************************************************************************)
VARIABLES
    run,                 \* how many times main() has been started
    pc,                  \* where main() stands; "idle" between two runs
    label_names,         \* the requested label names (--labels)
    label_id_to_name,    \* the inverted label map of line 140
    downloaded_label_id, \* the id of the done-label, None without --mark-downloaded
    msg_ids,             \* the candidate ids list_message_ids returned
    idx,                 \* the position of the for loop in msg_ids, from 1
    loc,                 \* the locals of the loop body
    fsEml, fsAttDirs, fsAtt,   \* the file system
    dbDisk, dbConn,      \* the index: committed, and as the connection sees it
    csv,                 \* the rows export_csv wrote last, in the order of the file
    remoteLabels,        \* the mailbox's label name -> id
    marked,              \* the ids the done-label was added to
    log,                 \* the lines the run printed
    hist,                \* per id, what its latest completed ingestion was given and left
    upserted,            \* per id, the arguments of the latest upsert_email that returned
    ingested,            \* the ids in the order their first upsert_email returned
    ended,               \* how the latest run ended
    faults,              \* the exceptions and interrupts raised so far
    probe                \* one call of a function of the program taken on its
                         \* own: its arguments and, once it has returned, its result

vars == <<run, pc, label_names, label_id_to_name, downloaded_label_id, msg_ids, idx, loc,
          fsEml, fsAttDirs, fsAtt, dbDisk, dbConn, csv, remoteLabels, marked, log,
          hist, upserted, ingested, ended, faults, probe>>

\* the state of main()
mainVars == <<run, pc, label_names, label_id_to_name, downloaded_label_id, msg_ids, idx, loc,
              fsEml, fsAttDirs, fsAtt, dbDisk, dbConn, csv, remoteLabels, marked, log,
              hist, upserted, ingested, ended, faults>>

\* no function is called on its own
NoProbe == [fn |-> None]

fsVars == <<fsEml, fsAttDirs, fsAtt>>
runVars == <<run, label_names, label_id_to_name, downloaded_label_id, msg_ids>>
remoteVars == <<remoteLabels, marked>>

NoMeta == [threadId |-> None, snippet |-> None, labelIds |-> <<>>]
NoPath == AttPath(None, None, NoFilename)
NoParsed ==
    [ok |-> TRUE, message_id |-> None, subject |-> None, from_ |-> None, to |-> None,
     cc |-> None, bcc |-> None, date |-> None, text_body |-> None, html_body |-> None,
     headers |-> <<>>]

\* the locals before the loop body has assigned them
InitLoc ==
    [raw_bytes |-> NoRaw, meta |-> NoMeta, primary_label |-> None,
     parsed |-> NoParsed, attachments |-> <<>>,
     extracted |-> FALSE, email_id |-> 0, k |-> 0, attachment_path |-> NoPath,
     clean |-> TRUE, follows |-> FALSE]

\* the id the loop body works on
mid == msg_ids[idx]

\* what the index and the disk hold for one id: the files under every label
\* folder, the rows as the connection sees them and as they are committed
Projection(m) ==
    [eml |-> {<<p[1], fsEml[p]>> : p \in {q \in DOMAIN fsEml : q[2] = m}},
     att_dirs |-> {p[1] : p \in {q \in fsAttDirs : q[2] = m}},
     att_files |-> {<<p, fsAtt[p]>> : p \in {q \in DOMAIN fsAtt : q.mid = m}},
     emails |-> EmailRows(dbConn, m),
     labels |-> LabelRows(dbConn, m),
     attachments |-> AttachmentRows(dbConn, m),
     disk_emails |-> EmailRows(dbDisk, m),
     disk_labels |-> LabelRows(dbDisk, m),
     disk_attachments |-> AttachmentRows(dbDisk, m)]

\* the (filename, content type, size) of attachment rows or attachment dicts
Described(atts) ==
    [i \in DOMAIN atts |-> [filename |-> atts[i].filename,
                            content_type |-> atts[i].content_type,
                            size |-> atts[i].size]]

NoHist ==
    [n |-> 0, clean |-> TRUE, run |-> 0, raw |-> NoRaw, meta |-> NoMeta,
     label_names |-> <<>>, id_to_name |-> <<>>, label |-> None,
     expect |-> <<>>, prev_expect |-> <<>>, proj |-> <<>>, prev_proj |-> <<>>,
     same |-> FALSE]

\* the names the inverted label map gives the ids of a metadata response
NamesOf(id_to_name, labelIds) ==
    {<<lid, id_to_name[lid]>> : lid \in Range(labelIds) \cap DOMAIN id_to_name}

NoUpsert == [gmail_id |-> None]

Constructed ==
    /\ run = 0
    /\ pc = "idle"
    /\ label_names = <<>>
    /\ label_id_to_name = <<>>
    /\ downloaded_label_id = None
    /\ msg_ids = <<>>
    /\ idx = 0
    /\ loc = InitLoc
    /\ fsEml = <<>>
    /\ fsAttDirs = {}
    /\ fsAtt = <<>>
    /\ dbDisk = EmptyDb
    /\ dbConn = EmptyDb
    /\ csv = <<>>
    /\ remoteLabels = BaseLabelMap
    /\ marked = {}
    /\ log = {}
    /\ hist = [m \in Mids |-> NoHist]
    /\ upserted = [m \in Mids |-> NoUpsert]
    /\ ingested = <<>>
    /\ ended = "never"
    /\ faults = 0

Init == Constructed /\ probe = NoProbe

(***************************************************************************)
(* main(): from the arguments to the candidate list (lines 118-161).       *)
(***************************************************************************)
\* create_label_if_not_exists: the label map afterwards
LabelsAfterCreate(label_map, label_name) ==
    IF label_name \in DOMAIN label_map THEN label_map
    ELSE Put(label_map, label_name, "idD")

\* the ids the listing may return: with a done-label the query excludes the
\* messages that carry it
Candidates(done_name) == IF done_name = None THEN Mids ELSE Mids \ marked

\* the lists list_message_ids may return: candidates in mailbox order, cut
\* at --max
CandidateLists(done_name) ==
    {q \in {SelectIdx(Mailbox, K) : K \in SUBSET (DOMAIN Mailbox)} :
        /\ Range(q) \subseteq Candidates(done_name)
        /\ Len(q) <= MaxMsgs}

\* names and done_name are --labels and --mark-downloaded, ids is what
\* list_message_ids returns
StartRun ==
    /\ pc = "idle"
    /\ run < MaxRuns
    /\ \E labels \in LabelNameChoices, done_name \in DoneLabelChoices :
         \E ids \in CandidateLists(done_name) :
            /\ label_names_of(labels) # <<>>
            /\ resolve_label_ids(label_names_of(labels), remoteLabels).ok
            /\ label_names' = label_names_of(labels)
            /\ remoteLabels' = IF done_name = None THEN remoteLabels
                               ELSE LabelsAfterCreate(remoteLabels, done_name)
            /\ downloaded_label_id' = IF done_name = None THEN None
                                      ELSE remoteLabels'[done_name]
            /\ msg_ids' = ids
            /\ pc' = IF ids = <<>> THEN "export" ELSE "fetch"
    /\ run' = run + 1
    /\ label_id_to_name' = Inverse(remoteLabels)
    /\ idx' = 1
    /\ loc' = InitLoc
    /\ dbConn' = dbDisk
    /\ log' = {}
    /\ ended' = "running"
    /\ UNCHANGED <<fsVars, dbDisk, csv, marked, hist, upserted, ingested, faults, probe>>

\* a configuration error that is noticed only after the done-label has been
\* created
ConfigErrorAfterSetup ==
    /\ pc = "idle"
    /\ run < MaxRuns
    /\ \E labels \in LabelNameChoices :
         /\ \/ label_names_of(labels) = <<>>
            \/ ~resolve_label_ids(label_names_of(labels), remoteLabels).ok
         /\ label_names' = label_names_of(labels)
    /\ run' = run + 1
    /\ remoteLabels' = LabelsAfterCreate(remoteLabels, "D")
    /\ log' = {[kind |-> "config error", mid |-> None]}
    /\ ended' = "config error"
    /\ UNCHANGED <<pc, label_id_to_name, downloaded_label_id, msg_ids, idx, loc,
                   fsVars, dbDisk, dbConn, csv, marked, hist, upserted, ingested, faults, probe>>

\* no label name is left of --labels, or resolve_label_ids raises: the
\* message is printed and sys.exit(2) ends the run
ConfigError ==
    /\ pc = "idle"
    /\ run < MaxRuns
    /\ \E labels \in LabelNameChoices :
         /\ \/ label_names_of(labels) = <<>>
            \/ ~resolve_label_ids(label_names_of(labels), remoteLabels).ok
         /\ label_names' = label_names_of(labels)
    /\ run' = run + 1
    /\ log' = {[kind |-> "config error", mid |-> None]}
    /\ ended' = "config error"
    /\ UNCHANGED <<pc, label_id_to_name, downloaded_label_id, msg_ids, idx, loc,
                   fsVars, dbDisk, dbConn, csv, remoteVars, hist, upserted, ingested, faults, probe>>

(***************************************************************************)
(* The loop body (lines 164-258), one action per call.                     *)
(***************************************************************************)
\* the end of the loop body: on to the next id, or to the export
Advance ==
    /\ idx' = idx + 1
    /\ loc' = InitLoc
    /\ pc' = IF idx = Len(msg_ids) THEN "export" ELSE "fetch"

\* get_message_raw, get_message_metadata and the choice of the folder
Fetch(raw, meta) ==
    /\ pc = "fetch"
    /\ loc' = [loc EXCEPT !.raw_bytes = raw, !.meta = meta,
                          !.primary_label =
                              primary_label_of(label_names, meta.labelIds, label_id_to_name),
                          !.follows = hist[mid].clean]
    /\ pc' = "save_eml"
    /\ UNCHANGED <<runVars, idx, fsVars, dbDisk, dbConn, csv, remoteVars, log, hist,
                   upserted, ingested, ended, faults, probe>>

\* save_eml; from here on the id no longer stands as its latest completed
\* ingestion left it
SaveEml ==
    /\ pc = "save_eml"
    /\ fsEml' = Put(fsEml, <<loc.primary_label, mid>>, loc.raw_bytes)
    /\ hist' = [hist EXCEPT ![mid].clean = FALSE]
    /\ pc' = "parse"
    /\ UNCHANGED <<runVars, idx, loc, fsAttDirs, fsAtt, dbDisk, dbConn, csv, remoteVars,
                   log, upserted, ingested, ended, faults, probe>>

\* parse_message_object and extract_attachments
Parse ==
    /\ pc = "parse"
    /\ parse_message_object(loc.raw_bytes).ok
    /\ loc' = [loc EXCEPT !.parsed = parse_message_object(loc.raw_bytes),
                          !.attachments = extract_attachments(message_from_bytes(loc.raw_bytes)),
                          !.extracted = TRUE]
    /\ pc' = "upsert"
    /\ UNCHANGED <<runVars, idx, fsVars, dbDisk, dbConn, csv, remoteVars, log, hist,
                   upserted, ingested, ended, faults, probe>>

\* the keyword arguments of the upsert_email call
UpsertArgs ==
    [gmail_id |-> mid, thread_id |-> loc.meta.threadId,
     message_id |-> loc.parsed.message_id, subject |-> loc.parsed.subject,
     from_addr |-> loc.parsed.from_, to_addrs |-> loc.parsed.to,
     cc_addrs |-> loc.parsed.cc, bcc_addrs |-> loc.parsed.bcc,
     date |-> loc.parsed.date, snippet |-> loc.meta.snippet,
     text_body |-> loc.parsed.text_body, html_body |-> loc.parsed.html_body,
     headers |-> loc.parsed.headers, raw_eml_path |-> <<loc.primary_label, mid>>]

\* upsert_email: the statement, then conn.commit()
upsert_email ==
    /\ pc = "upsert"
    /\ \E now \in CurrentTimestamps(dbConn) : dbConn' = UpsertStatement(dbConn, UpsertArgs, now)
    /\ dbDisk' = dbConn'
    /\ upserted' = [upserted EXCEPT ![mid] = UpsertArgs]
    /\ ingested' = IF mid \in Range(ingested) THEN ingested ELSE Append(ingested, mid)
    /\ pc' = "labels"
    /\ UNCHANGED <<runVars, idx, loc, fsVars, csv, remoteVars, log, hist, ended, faults, probe>>

\* get_email_id_by_gmail_id, then insert_email_labels (with its commit) when
\* label_tuples is not empty
SaveLabels ==
    /\ pc = "labels"
    /\ LET email_id == get_email_id_by_gmail_id(dbConn, mid)
           label_tuples == label_tuples_of(loc.meta.labelIds, label_id_to_name)
       IN /\ loc' = [loc EXCEPT !.email_id = email_id]
          /\ IF email_id # 0 /\ label_tuples # <<>>
             THEN /\ dbConn' = ReplaceLabelsStatements(dbConn, email_id, label_tuples)
                  /\ dbDisk' = dbConn'
             ELSE UNCHANGED <<dbConn, dbDisk>>
          /\ pc' = IF email_id # 0 THEN "delete_att" ELSE "mark"
    /\ UNCHANGED <<runVars, idx, fsVars, csv, remoteVars, log, hist, upserted, ingested, ended, faults, probe>>

\* delete_attachments_for_email: the DELETE, then conn.commit()
delete_attachments_for_email ==
    /\ pc = "delete_att"
    /\ dbConn' = DeleteAttachmentsStatement(dbConn, loc.email_id)
    /\ dbDisk' = dbConn'
    /\ pc' = "clear_dir"
    /\ UNCHANGED <<runVars, idx, loc, fsVars, csv, remoteVars, log, hist, upserted, ingested, ended, faults, probe>>

\* clear_attachments_dir(label_dir, mid)
ClearDir ==
    /\ pc = "clear_dir"
    /\ fsAtt' = clear_attachments_dir(fsAtt, loc.primary_label, mid)
    /\ fsAttDirs' = fsAttDirs \ {<<loc.primary_label, mid>>}
    /\ loc' = [loc EXCEPT !.k = 1]
    /\ pc' = "att_loop"
    /\ UNCHANGED <<runVars, idx, fsEml, dbDisk, dbConn, csv, remoteVars, log, hist,
                   upserted, ingested, ended, faults, probe>>

\* whether the ingestion that completes was given what the latest completed
\* ingestion of the same id was given, no attachment failing in either and
\* no abandoned ingestion of the id between the two
SameAsBefore ==
    /\ hist[mid].n >= 1
    /\ loc.follows /\ loc.clean
    /\ hist[mid].raw = loc.raw_bytes
    /\ hist[mid].meta = loc.meta
    /\ hist[mid].label_names = label_names
    /\ NamesOf(hist[mid].id_to_name, loc.meta.labelIds)
         = NamesOf(label_id_to_name, loc.meta.labelIds)

\* the head of  for attachment in attachments:  the next one, or past the
\* loop; past the loop everything of the message has been persisted, and
\* hist records what it was given and what it left
AttachmentLoop ==
    /\ pc = "att_loop"
    /\ IF loc.k <= Len(loc.attachments)
       THEN /\ pc' = "att_save"
            /\ UNCHANGED hist
       ELSE /\ pc' = "mark"
            /\ hist' = [hist EXCEPT ![mid] =
                   [n |-> IF hist[mid].n < 2 THEN hist[mid].n + 1 ELSE 2,
                    clean |-> loc.clean, run |-> run,
                    raw |-> loc.raw_bytes, meta |-> loc.meta,
                    label_names |-> label_names, id_to_name |-> label_id_to_name,
                    label |-> loc.primary_label,
                    expect |-> Described(loc.attachments),
                    prev_expect |-> hist[mid].expect,
                    proj |-> Projection(mid),
                    prev_proj |-> hist[mid].proj,
                    same |-> SameAsBefore]]
    /\ UNCHANGED <<runVars, idx, loc, fsVars, dbDisk, dbConn, csv, remoteVars, log,
                   upserted, ingested, ended, faults, probe>>

\* save_attachment(attachment["data"], label_dir, mid, attachment["filename"])
SaveAttachment ==
    /\ pc = "att_save"
    /\ LET attachment == loc.attachments[loc.k]
           path == save_attachment_path(fsAtt, loc.primary_label, mid, attachment.filename)
       IN /\ fsAttDirs' = fsAttDirs \cup {<<loc.primary_label, mid>>}
          /\ fsAtt' = Put(fsAtt, path, attachment.data)
          /\ loc' = [loc EXCEPT !.attachment_path = path]
    /\ pc' = "att_insert"
    /\ UNCHANGED <<runVars, idx, fsEml, dbDisk, dbConn, csv, remoteVars, log, hist,
                   upserted, ingested, ended, faults, probe>>

\* insert_attachment: the INSERT, and no commit
insert_attachment ==
    /\ pc = "att_insert"
    /\ LET attachment == loc.attachments[loc.k]
       IN dbConn' = InsertAttachmentStatement(dbConn, loc.email_id, attachment.filename,
                                              attachment.content_type, attachment.size,
                                              loc.attachment_path)
    /\ loc' = [loc EXCEPT !.k = loc.k + 1, !.attachment_path = NoPath]
    /\ pc' = "att_loop"
    /\ UNCHANGED <<runVars, idx, fsVars, dbDisk, csv, remoteVars, log, hist, upserted, ingested, ended, faults, probe>>

\* save_attachment or insert_attachment raises: the inner except prints a
\* warning and the loop goes on with the next attachment
AttachmentFails ==
    /\ faults < MaxFaults
    /\ faults' = faults + 1
    /\ pc \in {"att_save", "att_insert"}
    /\ log' = log \cup {[kind |-> "attachment warning", mid |-> mid]}
    /\ loc' = [loc EXCEPT !.k = loc.k + 1, !.attachment_path = NoPath, !.clean = FALSE]
    /\ pc' = "att_loop"
    /\ UNCHANGED <<runVars, idx, fsVars, dbDisk, dbConn, csv, remoteVars, hist, upserted, ingested,
                   ended, probe>>

\* the line printed every 20 messages and after the last one
Processed ==
    IF idx % 20 = 0 \/ idx = Len(msg_ids)
    THEN {[kind |-> "processed", mid |-> mid]} ELSE {}

\* add_label_to_message(service, mid, downloaded_label_id)
Mark ==
    /\ pc = "mark"
    /\ downloaded_label_id # None
    /\ marked' = marked \cup {mid}
    /\ log' = log \cup Processed
    /\ Advance
    /\ UNCHANGED <<runVars, fsVars, dbDisk, dbConn, csv, remoteLabels, hist, upserted, ingested, ended, faults, probe>>

\* a failing add_label_to_message handled like a failure of the message: the
\* error is printed and what the connection has not committed is rolled back
MarkFailsTheMessage ==
    /\ faults < MaxFaults
    /\ faults' = faults + 1
    /\ pc = "mark"
    /\ downloaded_label_id # None
    /\ log' = log \cup {[kind |-> "mark warning", mid |-> mid], [kind |-> "error", mid |-> mid]}
    /\ dbConn' = dbDisk
    /\ Advance
    /\ UNCHANGED <<runVars, fsVars, dbDisk, csv, remoteVars, hist, upserted, ingested, ended, probe>>

\* add_label_to_message raises: a warning, and the message counts as processed
MarkFails ==
    /\ faults < MaxFaults
    /\ faults' = faults + 1
    /\ pc = "mark"
    /\ downloaded_label_id # None
    /\ log' = log \cup {[kind |-> "mark warning", mid |-> mid]} \cup Processed
    /\ Advance
    /\ UNCHANGED <<runVars, fsVars, dbDisk, dbConn, csv, remoteVars, hist, upserted, ingested, ended, probe>>

\* no done-label: nothing to mark
NoMark ==
    /\ pc = "mark"
    /\ downloaded_label_id = None
    /\ log' = log \cup Processed
    /\ Advance
    /\ UNCHANGED <<runVars, fsVars, dbDisk, dbConn, csv, remoteVars, hist, upserted, ingested, ended, faults, probe>>

\* the calls of the loop body whose exception reaches  except Exception
RaisingSteps == {"fetch", "save_eml", "upsert", "labels", "delete_att", "clear_dir"}

\* an exception that ends the run instead of the iteration
RaiseExceptionAborts ==
    /\ faults < MaxFaults
    /\ faults' = faults + 1
    /\ pc \in RaisingSteps
    /\ log' = log \cup {[kind |-> "error", mid |-> mid]}
    /\ dbConn' = dbDisk
    /\ pc' = "idle"
    /\ ended' = "aborted"
    /\ UNCHANGED <<runVars, idx, loc, fsVars, dbDisk, csv, remoteVars, hist, upserted, ingested, probe>>

\* one of them raises before it has changed anything: the error is printed
\* with the id and the loop goes on
RaiseException ==
    /\ faults < MaxFaults
    /\ faults' = faults + 1
    /\ pc \in RaisingSteps
    /\ log' = log \cup {[kind |-> "error", mid |-> mid]}
    /\ Advance
    /\ UNCHANGED <<runVars, fsVars, dbDisk, dbConn, csv, remoteVars, hist, upserted, ingested, ended, probe>>

\* parse_message_object raises
ParseRaises ==
    /\ pc = "parse"
    /\ ~parse_message_object(loc.raw_bytes).ok
    /\ log' = log \cup {[kind |-> "error", mid |-> mid]}
    /\ Advance
    /\ UNCHANGED <<runVars, fsVars, dbDisk, dbConn, csv, remoteVars, hist, upserted, ingested, ended, faults, probe>>

LoopSteps ==
    RaisingSteps \cup {"parse", "att_loop", "att_save", "att_insert", "mark"}

\* KeyboardInterrupt inside the try: "Interrupted by user", conn.close(), return
Interrupt ==
    /\ faults < MaxFaults
    /\ faults' = faults + 1
    /\ pc \in LoopSteps
    /\ log' = log \cup {[kind |-> "interrupted", mid |-> mid]}
    /\ dbConn' = dbDisk
    /\ pc' = "idle"
    /\ ended' = "interrupted"
    /\ UNCHANGED <<runVars, idx, loc, fsVars, dbDisk, csv, remoteVars, hist, upserted, ingested, probe>>

\* the columns export_csv selects
ExportColumns == EmailColumns \ {"headers_json"}

\* a SELECT ... ORDER BY date
OrderByDate(rows) ==
    LET rank(d) == CASE d = None -> 0
                     [] d = "2024/01/01 10:00" -> 1
                     [] OTHER -> 2
        before(a, b) == \/ rank(a.date) < rank(b.date)
                        \/ (rank(a.date) = rank(b.date) /\ a.id < b.id)
    IN CHOOSE q \in [1..Cardinality(rows) -> rows] :
          \A i, j \in DOMAIN q : i < j => before(q[i], q[j])

\* SELECT ... FROM emails ORDER BY created_at: the scan goes by rowid, and
\* the sort keeps rows of one created_at in the order of the scan
OrderByCreatedAt(rows) ==
    LET before(a, b) == \/ a.created_at < b.created_at
                        \/ (a.created_at = b.created_at /\ a.id < b.id)
    IN CHOOSE q \in [1..Cardinality(rows) -> rows] :
          \A i, j \in DOMAIN q : i < j => before(q[i], q[j])

\* export_csv: the rows written, in order, with the selected columns
export_csv(db) ==
    LET q == OrderByCreatedAt(db.emails)
    IN [i \in DOMAIN q |-> [c \in ExportColumns |-> q[i][c]]]

\* export_csv, then conn.close()
Export ==
    /\ pc = "export"
    /\ csv' = export_csv(dbConn)
    /\ dbConn' = dbDisk
    /\ pc' = "idle"
    /\ ended' = "exported"
    /\ UNCHANGED <<runVars, idx, loc, fsVars, dbDisk, remoteVars, log, hist, upserted, ingested, faults, probe>>

Next ==
    \/ StartRun
    \/ ConfigError
    \/ \E r \in Responses : Fetch(r.raw, r.meta)
    \/ SaveEml
    \/ Parse
    \/ ParseRaises
    \/ upsert_email
    \/ SaveLabels
    \/ delete_attachments_for_email
    \/ ClearDir
    \/ AttachmentLoop
    \/ SaveAttachment
    \/ insert_attachment
    \/ AttachmentFails
    \/ Mark
    \/ MarkFails
    \/ NoMark
    \/ RaiseException
    \/ Interrupt
    \/ Export

Spec == Init /\ [][Next]_vars

(***************************************************************************)
(* resolve_label_ids on its own: the arguments are drawn at the start, the *)
(* one step is the call.                                                   *)
(***************************************************************************)
MaxNames == 3

\* the names a caller may pass: labels of the mailbox, with blanks around
\* them or not, a label the mailbox lacks, and a blank
RequestedNames == {"A", " A", "B", "Z", " Z ", " "}

NameLists == UNION {[1..n -> RequestedNames] : n \in 0..MaxNames}

\* what list_labels may have returned
LabelMaps == {BaseLabelMap, LabelsAfterCreate(BaseLabelMap, "Z"), ("B" :> "idB")}

NoResolved == [ok |-> FALSE, ids |-> <<>>, missing |-> <<>>]

ResolveInit ==
    /\ Constructed
    /\ probe \in {[fn |-> "resolve_label_ids", label_names |-> n, label_map |-> m,
                    returned |-> FALSE, result |-> NoResolved] :
                       n \in NameLists, m \in LabelMaps}

CallResolve ==
    /\ probe.fn = "resolve_label_ids"
    /\ ~probe.returned
    /\ probe' = [probe EXCEPT !.returned = TRUE,
                              !.result = resolve_label_ids(probe.label_names, probe.label_map)]
    /\ UNCHANGED mainVars

ResolveSpec == ResolveInit /\ [][CallResolve]_vars

(***************************************************************************)
(* The query of lines 152-157 on its own: --query and --mark-downloaded    *)
(* are drawn at the start, the one step computes combined_q.               *)
(***************************************************************************)
MaxLabelLen == 3

\* the characters of a label name: a letter, a space, a tab
LabelChars == {"d", " ", "\t"}

\* --mark-downloaded: not given, or a name (the empty one too)
DoneLabelNames ==
    {NoStr} \cup {Str(t) : t \in UNION {[1..n -> LabelChars] : n \in 0..MaxLabelLen}}

\* --query: not given, empty, one term, two terms
BaseQueries == {NoStr, Str(<<>>), Str(<<"q">>), Str(<<"q", " ", "r">>)}

QueryInit ==
    /\ Constructed
    /\ probe \in {[fn |-> "combined_q", query |-> q, downloaded_label_name |-> d,
                    returned |-> FALSE, result |-> NoStr] :
                       q \in BaseQueries, d \in DoneLabelNames}

BuildQuery ==
    /\ probe.fn = "combined_q"
    /\ ~probe.returned
    /\ probe' = [probe EXCEPT !.returned = TRUE,
                              !.result = combined_q(probe.query, probe.downloaded_label_name)]
    /\ UNCHANGED mainVars

QuerySpec == QueryInit /\ [][BuildQuery]_vars

(***************************************************************************)
(* extract_bodies and extract_attachments on their own: the message is     *)
(* drawn at the start, a step is the call of one of the two.               *)
(***************************************************************************)
MaxLeaves == 2

\* how a part decodes: get_content returns; get_content raises and
\* get_payload with the decoding returns; both raise
Decodings == {<<TRUE, TRUE>>, <<FALSE, TRUE>>, <<FALSE, FALSE>>}

\* text parts with no filename
BodyLeaves ==
    {Leaf(ctype, "", NoFilename, ok[1], text, ok[2], <<1>>, text) :
        ctype \in {"text/plain", "text/html"}, text \in {"first", "second"}, ok \in Decodings}

\* what get_payload(decode=True) gives for a file part: bytes, no bytes, or
\* an exception
Payloads == {<<TRUE, <<1>>>>, <<TRUE, <<>>>>, <<FALSE, <<>>>>}

\* other parts: with or without Content-Disposition, with a filename, with
\* none, with one of Outlook's
FileLeaves ==
    {Leaf("application/pdf", disp, filename, TRUE, "bin", pl[1], pl[2], "bin") :
        disp \in {"", "attachment", "inline"},
        filename \in {NoFilename, FName("f", <<>>, ".pdf"),
                      FName("eml*oecustomproperty_x", <<>>, ""),
                      FName("x_EML*OECUSTOMHTML", <<>>, ".htm")},
        pl \in Payloads}

ParserLeaves == BodyLeaves \cup FileLeaves

\* multipart messages of up to MaxLeaves parts, and the messages that are
\* one part
ParserMessages ==
    {[hdrs |-> <<>>, multipart |-> TRUE, leaves |-> l] :
        l \in UNION {[1..n -> ParserLeaves] : n \in 1..MaxLeaves}}
    \cup {[hdrs |-> <<>>, multipart |-> FALSE, leaves |-> <<l>>] : l \in ParserLeaves}

NoBodies == [ok |-> TRUE, text_body |-> None, html_body |-> None]

ParserInit ==
    /\ Constructed
    /\ probe \in {[fn |-> f, msg |-> m, returned |-> FALSE,
                    bodies |-> NoBodies, attachments |-> <<>>] :
                       f \in {"extract_bodies", "extract_attachments"}, m \in ParserMessages}

CallExtractBodies ==
    /\ probe.fn = "extract_bodies"
    /\ ~probe.returned
    /\ probe' = [probe EXCEPT !.returned = TRUE, !.bodies = extract_bodies(probe.msg)]
    /\ UNCHANGED mainVars

CallExtractAttachments ==
    /\ probe.fn = "extract_attachments"
    /\ ~probe.returned
    /\ probe' = [probe EXCEPT !.returned = TRUE,
                              !.attachments = extract_attachments(probe.msg)]
    /\ UNCHANGED mainVars

ParserNext ==
    \/ CallExtractBodies
    \/ CallExtractAttachments

ParserSpec == ParserInit /\ [][ParserNext]_vars

(***************************************************************************)
(* save_attachment on its own: the filenames of one message's attachments  *)
(* are drawn at the start, a step saves the next one into the directory    *)
(* that clear_attachments_dir has left empty.  The data of the k-th        *)
(* attachment is k.                                                        *)
(***************************************************************************)
MaxAtts == 3

\* f.pdf, the names its suffixed forms take, and a name with no extension
SavedNames ==
    {FName("f", <<>>, ".pdf"), FName("f", <<1>>, ".pdf"), FName("f", <<2>>, ".pdf"),
     FName("f", <<1, 1>>, ".pdf"), FName("g", <<>>, "")}

SaveInit ==
    /\ Constructed
    /\ probe \in {[fn |-> "save_attachment", filenames |-> names, k |-> 1,
                    files |-> <<>>, paths |-> <<>>] :
                       names \in UNION {[1..n -> SavedNames] : n \in 1..MaxAtts}}

SaveNextAttachment ==
    /\ probe.fn = "save_attachment"
    /\ probe.k <= Len(probe.filenames)
    /\ LET path == save_attachment_path(probe.files, "A", "m1", probe.filenames[probe.k])
       IN probe' = [probe EXCEPT !.k = probe.k + 1,
                                 !.files = Put(probe.files, path, probe.k),
                                 !.paths = Append(probe.paths, path)]
    /\ UNCHANGED mainVars

SaveSpec == SaveInit /\ [][SaveNextAttachment]_vars

(***************************************************************************)
(* list_message_ids on its own.  The transport holds the matching ids in   *)
(* order and hands them out in pages; it may or may not cut a page at the  *)
(* maxResults of the request.  A page token is the place of the next id, 0 *)
(* when there is none.  A step is one pass of the while loop.              *)
(***************************************************************************)
MaxIds == 4
MaxPage == 2

\* min(500, remaining)
PageLimit == 500

Min(a, b) == IF a <= b THEN a ELSE b

\* --max: not given, or a number
NoMax == [given |-> FALSE, n |-> 0]
MaxOf(n) == [given |-> TRUE, n |-> n]

\* what "if max_results:" tests
TruthyMax(max_results) == max_results.given /\ max_results.n # 0

\* messages().list(**params).execute(); maxResults is 0 when the request
\* has none
ListResponse(all, page_size, honours, page_token, maxResults) ==
    LET start == IF page_token = 0 THEN 1 ELSE page_token
        size == IF honours /\ maxResults > 0 THEN Min(page_size, maxResults) ELSE page_size
        last == Min(Len(all), start + size - 1)
    IN [messages |-> SubSeq(all, start, last),
        nextPageToken |-> IF last < Len(all) THEN last + 1 ELSE 0]

\* one pass of "while True:" of list_message_ids
ListPage(p) ==
    IF TruthyMax(p.max_results) /\ p.max_results.n - p.fetched <= 0
    THEN [p EXCEPT !.returned = TRUE]
    ELSE LET remaining == p.max_results.n - p.fetched
             resp == ListResponse(p.all, p.page_size, p.honours, p.page_token,
                                  IF TruthyMax(p.max_results) THEN Min(PageLimit, remaining) ELSE 0)
             taken == IF TruthyMax(p.max_results)
                      THEN SubSeq(resp.messages, 1, Min(Len(resp.messages), remaining))
                      ELSE resp.messages
             fetched == p.fetched + Len(taken)
         IN [p EXCEPT !.ids = p.ids \o taken,
                      !.fetched = fetched,
                      !.page_token = IF TruthyMax(p.max_results) /\ fetched >= p.max_results.n
                                     THEN p.page_token ELSE resp.nextPageToken,
                      !.returned = \/ TruthyMax(p.max_results) /\ fetched >= p.max_results.n
                                   \/ resp.nextPageToken = 0]

ListInit ==
    /\ Constructed
    /\ probe \in {[fn |-> "list_message_ids", all |-> [i \in 1..n |-> i], page_size |-> size,
                    honours |-> h, max_results |-> m, ids |-> <<>>, fetched |-> 0,
                    page_token |-> 0, returned |-> FALSE] :
                       n \in 0..MaxIds, size \in 1..MaxPage, h \in BOOLEAN,
                       m \in {NoMax} \cup {MaxOf(k) : k \in 0..(MaxIds + 1)}}

ListNextPage ==
    /\ probe.fn = "list_message_ids"
    /\ ~probe.returned
    /\ probe' = ListPage(probe)
    /\ UNCHANGED mainVars

ListSpec == ListInit /\ [][ListNextPage]_vars

(***************************************************************************)
(* The date column on its own.  Here a date is the sequence of its         *)
(* characters, so that the form of what strftime writes can be looked at.  *)
(* The Date headers of the successive ingestions of one message are drawn  *)
(* at the start; a step is one upsert_email, whose ON CONFLICT clause sets *)
(* date=excluded.date.                                                     *)
(***************************************************************************)
MaxIngests == 3

DigitChars == <<"0", "1", "2", "3", "4", "5", "6", "7", "8", "9">>

\* the decimal digits of n
RECURSIVE Decimal(_)
Decimal(n) ==
    IF n < 10 THEN <<DigitChars[n + 1]>>
    ELSE Decimal(n \div 10) \o <<DigitChars[(n % 10) + 1]>>

\* text with zeros before it up to the width
RECURSIVE ZeroPadded(_, _)
ZeroPadded(text, width) ==
    IF Len(text) >= width THEN text ELSE ZeroPadded(<<"0">> \o text, width)

\* "1 Jan 2024 10:00 +0000", "31 Dec 2023 23:59 +0000", "1 Jan 999 10:00 +0000"
\* and "not a date"
Date2024 == <<"1", " ", "J", "a", "n", " ", "2", "0", "2", "4", " ", "1", "0", ":", "0", "0", " ", "+", "0", "0", "0", "0">>
Date2023 == <<"3", "1", " ", "D", "e", "c", " ", "2", "0", "2", "3", " ", "2", "3", ":", "5", "9", " ", "+", "0", "0", "0", "0">>
Date999 == <<"1", " ", "J", "a", "n", " ", "9", "9", "9", " ", "1", "0", ":", "0", "0", " ", "+", "0", "0", "0", "0">>
NotADate == <<"n", "o", "t", " ", "a", " ", "d", "a", "t", "e">>

\* email.utils.parsedate_to_datetime: ok is FALSE when it raises
parsedate_to_datetime(text) ==
    CASE text = Date2024 -> [ok |-> TRUE, year |-> 2024, month |-> 1, day |-> 1, hour |-> 10, minute |-> 0]
      [] text = Date2023 -> [ok |-> TRUE, year |-> 2023, month |-> 12, day |-> 31, hour |-> 23, minute |-> 59]
      [] text = Date999 -> [ok |-> TRUE, year |-> 999, month |-> 1, day |-> 1, hour |-> 10, minute |-> 0]
      [] OTHER -> [ok |-> FALSE, year |-> 0, month |-> 0, day |-> 0, hour |-> 0, minute |-> 0]

\* dt.strftime("%Y/%m/%d %H:%M"); the C library decides whether %Y writes a
\* year below 1000 with zeros before it (pads) or without
strftime(dt, pads) ==
    (IF pads THEN ZeroPadded(Decimal(dt.year), 4) ELSE Decimal(dt.year))
    \o <<"/">> \o ZeroPadded(Decimal(dt.month), 2)
    \o <<"/">> \o ZeroPadded(Decimal(dt.day), 2)
    \o <<" ">> \o ZeroPadded(Decimal(dt.hour), 2)
    \o <<":">> \o ZeroPadded(Decimal(dt.minute), 2)

\* normalize_date on an optional string of characters
normalize_date_chars(raw_date, pads) ==
    IF ~TruthyStr(raw_date) THEN raw_date
    ELSE IF parsedate_to_datetime(raw_date.text).ok
         THEN Str(strftime(parsedate_to_datetime(raw_date.text), pads))
         ELSE raw_date

\* the Date header of an ingestion: none, empty, three that parse, one that
\* does not
RawDates == {NoStr, Str(<<>>), Str(Date2024), Str(Date2023), Str(Date999), Str(NotADate)}

DateInit ==
    /\ Constructed
    /\ probe \in {[fn |-> "normalize_date", raw_dates |-> raws, k |-> 0, date |-> NoStr] :
                       raws \in UNION {[1..n -> RawDates] : n \in 1..MaxIngests}}

UpsertDate ==
    /\ probe.fn = "normalize_date"
    /\ probe.k < Len(probe.raw_dates)
    /\ \E pads \in BOOLEAN :
         probe' = [probe EXCEPT !.k = probe.k + 1,
                                !.date = normalize_date_chars(probe.raw_dates[probe.k + 1], pads)]
    /\ UNCHANGED mainVars

DateSpec == DateInit /\ [][UpsertDate]_vars

(***************************************************************************)
(* create_label_if_not_exists and add_label_to_message on their own.  The  *)
(* transport is the label map, the label ids of each message, and the      *)
(* requests it has received, in order.  The labels, the label name and the *)
(* message are drawn at the start; the first step is the call of           *)
(* create_label_if_not_exists, the second add_label_to_message with the id *)
(* it returned.                                                            *)
(***************************************************************************)
\* the label maps of a mailbox: some of A, D, E, each with its id
LabelNames == {"A", "D", "E"}
IdOf(name) == CASE name = "A" -> "idA" [] name = "D" -> "idD" [] OTHER -> "idE"
MailboxLabelMaps == {[n \in names |-> IdOf(n)] : names \in SUBSET LabelNames}

\* the ids the transport may give a label it creates
CreatedIds == {"Label_1", "Label_2"}

ListRequest == [method |-> "labels.list", name |-> None, id |-> None, body |-> <<>>]
CreateRequest(label_name) ==
    [method |-> "labels.create", name |-> label_name, id |-> None, body |-> <<>>]
ModifyRequest(msg_id, label_id) ==
    [method |-> "messages.modify", name |-> None, id |-> msg_id,
     body |-> <<"addLabelIds", <<label_id>> >>]

\* a create_label_if_not_exists that creates whatever the list says
CreateWithoutLooking(t, label_name, new_id) ==
    [requests |-> t.requests \o <<ListRequest, CreateRequest(label_name)>>,
     labels |-> Put(t.labels, label_name, new_id),
     returns |-> new_id]

\* create_label_if_not_exists: the transport afterwards and the id
\* returned; new_id is the id the transport gives the label if it is created
create_label_if_not_exists(t, label_name, new_id) ==
    IF label_name \in DOMAIN t.labels
    THEN [requests |-> Append(t.requests, ListRequest),
          labels |-> t.labels,
          returns |-> t.labels[label_name]]
    ELSE [requests |-> t.requests \o <<ListRequest, CreateRequest(label_name)>>,
          labels |-> Put(t.labels, label_name, new_id),
          returns |-> new_id]

LabelingInit ==
    /\ Constructed
    /\ probe \in {[fn |-> "labeling", step |-> "create", label_name |-> name, msg_id |-> m,
                    labels |-> map, labels_before |-> map,
                    msg_labels |-> on, msg_labels_before |-> on,
                    requests |-> <<>>, label_id |-> None] :
                       name \in {"D", "E"}, m \in Mids, map \in MailboxLabelMaps,
                       on \in {{}, {"idA"}, {"idA", "idD"}}}

CallCreateLabel ==
    /\ probe.fn = "labeling"
    /\ probe.step = "create"
    /\ \E new_id \in CreatedIds :
         LET after == create_label_if_not_exists(probe, probe.label_name, new_id)
         IN probe' = [probe EXCEPT !.step = "add",
                                   !.requests = after.requests,
                                   !.labels = after.labels,
                                   !.label_id = after.returns]
    /\ UNCHANGED mainVars

\* add_label_to_message: the modify request and what the transport does
\* with it
CallAddLabel ==
    /\ probe.fn = "labeling"
    /\ probe.step = "add"
    /\ probe' = [probe EXCEPT !.step = "done",
                              !.requests = Append(probe.requests,
                                                  ModifyRequest(probe.msg_id, probe.label_id)),
                              !.msg_labels = probe.msg_labels \cup {probe.label_id}]
    /\ UNCHANGED mainVars

LabelingNext ==
    \/ CallCreateLabel
    \/ CallAddLabel

LabelingSpec == LabelingInit /\ [][LabelingNext]_vars

(***************************************************************************)
(* The attachment files of one ingestion, with filenames that name a       *)
(* directory.  A filename "../<id>/name" is the plain name with the field  *)
(* up, the directory it climbs into.  The files and directories of the     *)
(* label folder A and the filenames of the attachments of m1 are drawn at  *)
(* the start; the first step is clear_attachments_dir, every other step    *)
(* one pass of the attachment loop.  The data of the k-th attachment is k. *)
(***************************************************************************)
\* "../<gmail_id>/<name>"
Climbing(gmail_id, name) ==
    [base |-> name.base, sfx |-> name.sfx, ext |-> name.ext, up |-> gmail_id]

\* the last component of a filename, and the directory attachments_dir /
\* filename lies in
LastComponent(filename) == FName(filename.base, filename.sfx, filename.ext)
DirectoryOf(filename, gmail_id) ==
    IF "up" \in DOMAIN filename THEN filename.up ELSE gmail_id

\* save_attachment: the path it writes to; ok is FALSE when write_bytes
\* raises because the directory of the path does not exist.  The names the
\* while loop tries are in attachments_dir, made of the stem and the suffix
\* of the last component
save_attachment(att_files, att_dirs, label, gmail_id, filename) ==
    LET plain == LastComponent(filename)
        first == AttPath(label, DirectoryOf(filename, gmail_id), plain)
        own == {q.name : q \in {r \in DOMAIN att_files : r.dir = label /\ r.mid = gmail_id}}
        path == IF first \notin DOMAIN att_files THEN first
                ELSE AttPath(label, gmail_id,
                             FreeName(own, FName(plain.base, Append(plain.sfx, 1), plain.ext),
                                      plain, 2))
    IN [ok |-> <<label, path.mid>> \in att_dirs \cup {<<label, gmail_id>>},
        path |-> path]

TraversalNames ==
    {FName("f", <<>>, ".pdf"), FName("g", <<>>, ".pdf"),
     Climbing("m2", FName("f", <<>>, ".pdf")), Climbing("m2", FName("g", <<>>, ".pdf"))}

\* what earlier ingestions may have left in A/attachments: nothing or f.pdf
\* for m1, no directory or f.pdf for m2
FoldersBefore ==
    {[files |-> [q \in {AttPath("A", m, FName("f", <<>>, ".pdf")) : m \in had} |-> 0],
      dirs |-> {<<"A", m>> : m \in had}] : had \in SUBSET Mids}

FolderInit ==
    /\ Constructed
    /\ probe \in {[fn |-> "attachment files", filenames |-> names, k |-> 0,
                    files |-> before.files, dirs |-> before.dirs,
                    files_before |-> before.files] :
                       names \in UNION {[1..n -> TraversalNames] : n \in 1..MaxAtts},
                       before \in FoldersBefore}

\* clear_attachments_dir(label_dir, mid)
ClearOwnDir ==
    /\ probe.fn = "attachment files"
    /\ probe.k = 0
    /\ probe' = [probe EXCEPT !.k = 1,
                              !.files = clear_attachments_dir(probe.files, "A", "m1"),
                              !.dirs = probe.dirs \ {<<"A", "m1">>}]
    /\ UNCHANGED mainVars

\* one pass of "for attachment in attachments:": save_attachment, and the
\* warning when it raises
SaveOrWarn ==
    /\ probe.fn = "attachment files"
    /\ probe.k \in DOMAIN probe.filenames
    /\ LET saved == save_attachment(probe.files, probe.dirs, "A", "m1",
                                    probe.filenames[probe.k])
       IN probe' = [probe EXCEPT !.k = probe.k + 1,
                                 !.dirs = probe.dirs \cup {<<"A", "m1">>},
                                 !.files = IF saved.ok
                                           THEN Put(probe.files, saved.path, probe.k)
                                           ELSE probe.files]
    /\ UNCHANGED mainVars

FolderNext ==
    \/ ClearOwnDir
    \/ SaveOrWarn

FolderSpec == FolderInit /\ [][FolderNext]_vars

(***************************************************************************)
(* The claims.                                                             *)
(***************************************************************************)
\* the loop body stands past its persist step for the id it works on
Persisted == pc = "mark" /\ hist[mid].run = run

\* C1: when a re-ingestion of an id has gone through its attachments (none
\* of them failing), the attachment rows of that id, as the connection that
\* wrote them sees them, and the attachment files of that id on disk are
\* exactly the attachments extracted in this ingestion: one row per extracted
\* attachment, in order, each row's file on disk with the attachment's bytes,
\* and no other attachment file of that id under any label folder
C1_LatestAttachmentsOnly ==
    (Persisted /\ hist[mid].n >= 2 /\ hist[mid].clean /\ faults = 0) =>
        LET atts == loc.attachments
            rows == AttachmentRows(dbConn, mid)
        IN /\ Described(rows) = Described(atts)
           /\ \A i \in DOMAIN rows :
                /\ rows[i].file_path \in DOMAIN fsAtt
                /\ fsAtt[rows[i].file_path] = atts[i].data
           /\ {p \in DOMAIN fsAtt : p.mid = mid} = {rows[i].file_path : i \in DOMAIN rows}

\* C2: whenever main() is about to ask the transport to add the done-label
\* to a message, the committed index holds the message's row, its label
\* associations and all the attachment rows inserted for it
C2_DurableBeforeMark ==
    (pc = "mark" /\ downloaded_label_id # None) =>
        /\ EmailRows(dbDisk, mid) # {}
        /\ EmailRows(dbDisk, mid) = EmailRows(dbConn, mid)
        /\ LabelRows(dbDisk, mid) = LabelRows(dbConn, mid)
        /\ AttachmentRows(dbDisk, mid) = AttachmentRows(dbConn, mid)

\* the ingestion of m that has extracted its attachments and not yet
\* completed (or was interrupted before it completed)
Underway(m) ==
    /\ idx \in DOMAIN msg_ids
    /\ mid = m
    /\ loc.extracted
    /\ hist[m].run # run

\* C3: in every committed state of the index the attachment rows of a
\* message are the complete set of its previous ingestion or the complete set
\* of its latest ingestion
C3_AtomicReplace ==
    \A m \in Mids :
        Described(AttachmentRows(dbDisk, m)) \in
            IF Underway(m) THEN {hist[m].expect, Described(loc.attachments)}
            ELSE {hist[m].prev_expect, hist[m].expect}

\* C4: when a re-ingestion has persisted a message, its label associations
\* are exactly the (name, id) pairs of the labels its metadata reports, also
\* when there is none
C4_LabelsReplaced ==
    (Persisted /\ hist[mid].n >= 2 /\ faults = 0) =>
        /\ LabelRows(dbConn, mid) = Range(label_tuples_of(loc.meta.labelIds, label_id_to_name))
        /\ LabelRows(dbDisk, mid) = LabelRows(dbConn, mid)

\* the values the emails row of an id must hold after upsert_email(a): every
\* argument as given, the date in its stored form
StoredForm(a) ==
    [gmail_id |-> a.gmail_id, thread_id |-> a.thread_id, message_id |-> a.message_id,
     subject |-> a.subject, from_addr |-> a.from_addr, to_addrs |-> a.to_addrs,
     cc_addrs |-> a.cc_addrs, bcc_addrs |-> a.bcc_addrs,
     date |-> IF Parses(a.date) THEN ParsedDate(a.date) ELSE a.date,
     snippet |-> a.snippet, text_body |-> a.text_body, html_body |-> a.html_body,
     headers_json |-> a.headers, raw_eml_path |-> a.raw_eml_path]

\* C5: the committed index holds at most one emails row per external id, and
\* once upsert_email has returned for an id, every column of that row is the
\* value of the most recent upsert (None where that upsert gave None)
C5_UpsertReplacesAll ==
    \A m \in Mids :
        /\ Cardinality(EmailRows(dbDisk, m)) <= 1
        /\ upserted[m] # NoUpsert =>
              \E r \in EmailRows(dbDisk, m) :
                  \A c \in EmailColumns : r[c] = StoredForm(upserted[m])[c]

\* C5 witness: an upsert without subject, thread id and snippet has just
\* returned for an id whose earlier ingestion had all three
C5_Witness ==
    /\ pc = "labels"
    /\ hist[mid].n >= 1
    /\ get_header(message_from_bytes(hist[mid].raw).hdrs, "Subject") # None
    /\ hist[mid].meta.threadId # None
    /\ upserted[mid].subject = None
    /\ upserted[mid].thread_id = None
    /\ upserted[mid].snippet = None

FailureStep ==
    /\ ended' # "interrupted"
    /\ \/ pc \in RaisingSteps /\ faults' = faults + 1
       \/ pc = "parse" /\ ~parse_message_object(loc.raw_bytes).ok

C8_InterruptKeepsCompleted ==
    ended = "interrupted" =>
        /\ pc = "idle"
        /\ \A i \in 1..(idx - 1) :
              LET m == msg_ids[i]
              IN hist[m].run = run =>
                    /\ EmailRows(dbDisk, m) = hist[m].proj.emails
                    /\ LabelRows(dbDisk, m) = hist[m].proj.labels
                    /\ AttachmentRows(dbDisk, m) = hist[m].proj.attachments

\* the label folders that hold something of an id: its .eml, or its
\* attachment directory
GroupingsOf(m) ==
    {p[1] : p \in {q \in DOMAIN fsEml : q[2] = m}}
    \cup {p[1] : p \in {q \in fsAttDirs : q[2] = m}}

\* C9: every id that was ingested has its .eml and its attachment directory
\* under exactly one label folder
C9_OneGrouping ==
    (pc = "idle" /\ faults = 0) =>
        \A m \in Mids : hist[m].n >= 1 => Cardinality(GroupingsOf(m)) = 1

\* the first requested label, in the order of the request, that the
\* metadata reports; the first requested label when it reports none of them
FirstRequested(names, msg_label_ids, id_to_name) ==
    LET reported == {id_to_name[lid] : lid \in Range(msg_label_ids) \cap DOMAIN id_to_name}
        hits == {i \in DOMAIN names : names[i] \in reported}
    IN IF hits = {} THEN names[1]
       ELSE names[CHOOSE i \in hits : \A j \in hits : i <= j]

\* C10: the folder chosen for a message is the first label of the requested
\* list that its metadata reports, whatever the order of the metadata, and
\* the first requested label when none matches
C10_FirstRequestedWins ==
    (pc \in LoopSteps \ {"fetch"} /\ idx \in DOMAIN msg_ids) =>
        loc.primary_label = FirstRequested(label_names, loc.meta.labelIds, label_id_to_name)

MarkRequest ==
    \/ marked' # marked
    \/ \E line \in log' \ log : line.kind = "mark warning"

\* C12: with a done-label, a mark request is made only for the id the loop
\* stands at, once it has gone through its persist step in this run with
\* every write of it succeeding, and an id that has gone through it is not
\* passed without a request; without a done-label no label is created and
\* no request is made
C12_MarkExactlyPersisted ==
    /\ [][MarkRequest =>
            /\ pc = "mark" /\ downloaded_label_id # None
            /\ marked' \subseteq marked \cup {mid}
            /\ hist[mid].run = run
            /\ hist[mid].clean]_vars
    /\ [][(pc = "mark" /\ downloaded_label_id # None /\ idx' = idx + 1) => MarkRequest]_vars
    /\ [][downloaded_label_id' = None => (remoteLabels' = remoteLabels /\ ~MarkRequest)]_vars

\* the step is a mark request that fails
MarkFailure == \E line \in log' \ log : line.kind = "mark warning"

\* C13: a failing mark request prints a warning with the id and nothing
\* else: the rows and the files of the message stay as its ingestion left
\* them, no error is printed for it, and the loop goes on with the next id
\* (or with the export after the last one)
C13_MarkFailureIsWarning ==
    [][MarkFailure =>
          /\ log' \ log \subseteq {[kind |-> "mark warning", mid |-> mid],
                                   [kind |-> "processed", mid |-> mid]}
          /\ \E m \in Mids : m = mid /\ Projection(m)' = Projection(m)
          /\ Projection(mid) = hist[mid].proj
          /\ hist' = hist
          /\ marked' = marked
          /\ idx' = idx + 1
          /\ pc' = IF idx = Len(msg_ids) THEN "export" ELSE "fetch"
          /\ ended' = "running"]_vars

\* C13 witness: the mark request of the first of two ids has failed, the id
\* has its row, its labels and its attachment rows, and the loop stands at
\* the second id
C13_Witness ==
    /\ pc = "fetch" /\ idx = 2
    /\ [kind |-> "mark warning", mid |-> msg_ids[1]] \in log
    /\ [kind |-> "error", mid |-> msg_ids[1]] \notin log
    /\ EmailRows(dbConn, msg_ids[1]) # {}
    /\ LabelRows(dbConn, msg_ids[1]) # {}
    /\ AttachmentRows(dbConn, msg_ids[1]) # <<>>

\* C14: a run whose --labels leaves no name, or a name the mailbox does not
\* have, ends with the configuration error and lists nothing, fetches
\* nothing, writes no file and no row and creates no label; a run that
\* lists or fetches has at least one label name, all of them resolved
C14_ConfigErrorBeforeAnything ==
    /\ [][(/\ run' = run + 1
            /\ \/ label_names' = <<>>
               \/ ~(Range(label_names') \subseteq DOMAIN remoteLabels))
           => /\ ended' = "config error"
              /\ pc' = "idle"
              /\ UNCHANGED <<msg_ids, idx, fsVars, dbDisk, dbConn, csv, remoteVars>>]_vars
    /\ [](ended = "running" =>
            label_names # <<>> /\ Range(label_names) \subseteq DOMAIN remoteLabels)

\* C14 witness: a run ended with the configuration error on a disk and a
\* mailbox that an earlier run has written and marked
C14_Witness ==
    /\ ended = "config error"
    /\ label_names = <<"A", "Z">>
    /\ dbDisk.emails # {}
    /\ marked # {}

\* a part of the message that get_content or get_payload cannot decode
DecodeFailure(msg) ==
    \E i \in DOMAIN msg.leaves : ~msg.leaves[i].content_ok \/ ~msg.leaves[i].payload_ok

\* C15: a message with a part that cannot be decoded, multipart or not, is
\* never a failed message: parsing it goes on to the upsert, with no error
\* line, the body of the part absent
C15_DecodeFailureNeverFails ==
    [][(/\ pc = "parse"
        /\ DecodeFailure(message_from_bytes(loc.raw_bytes))
        /\ ended' = "running"
        /\ pc' # pc)
       => /\ pc' = "upsert"
          /\ log' = log
          /\ loc'.parsed.text_body = None]_vars

\* the call of resolve_label_ids has returned or raised
Resolved == probe.fn = "resolve_label_ids" /\ probe.returned

\* C16, names taken as resolve_label_ids takes them, with the blanks around
\* them removed and the names that are then empty left out: the call
\* succeeds exactly when every such name is in the mapping, and returns
\* their ids in the order requested; otherwise its error lists, in the
\* order requested, exactly the names that are not in the mapping
C16_ResolveTrimmed ==
    Resolved =>
        LET names == probe.label_names
            wanted == SelectSeq([i \in DOMAIN names |-> Strip(names[i])], LAMBDA n : n # "")
        IN /\ probe.result.ok <=> \A i \in DOMAIN wanted : wanted[i] \in DOMAIN probe.label_map
           /\ probe.result.ok =>
                 probe.result.ids = [i \in DOMAIN wanted |-> probe.label_map[wanted[i]]]
           /\ ~probe.result.ok =>
                 probe.result.missing = SelectSeq(wanted, LAMBDA n : n \notin DOMAIN probe.label_map)

\* C16 as stated, the requested names taken as they were passed: the call
\* succeeds exactly when every requested name that is not blank is in the
\* mapping, and its error names exactly the requested names that are not
C16_ResolveAsRequested ==
    Resolved =>
        LET wanted == SelectSeq(probe.label_names, LAMBDA n : Strip(n) # "")
        IN /\ probe.result.ok <=> \A i \in DOMAIN wanted : wanted[i] \in DOMAIN probe.label_map
           /\ probe.result.ok =>
                 probe.result.ids = [i \in DOMAIN wanted |-> probe.label_map[wanted[i]]]
           /\ ~probe.result.ok =>
                 Range(probe.result.missing) = {n \in Range(wanted) : n \notin DOMAIN probe.label_map}

\* C16 witness: a request with a label of the mailbox, a blank and a label
\* the mailbox lacks has failed, and the error names the lacking one alone
C16_Witness ==
    /\ Resolved
    /\ probe.label_names = <<"A", " ", "Z">>
    /\ probe.label_map = BaseLabelMap
    /\ ~probe.result.ok
    /\ probe.result.missing = <<"Z">>

\* combined_q has been computed
QueryBuilt == probe.fn = "combined_q" /\ probe.returned

\* the clause -label:<name>, the name as it is or in double quotes
ExclusionClauses(name) == {MinusLabel \o name, MinusLabel \o <<"\"">> \o name \o <<"\"">>}

\* C17: without a done-label the filter is --query as it was given, absent
\* or empty included; with one it is --query, one space and the one clause
\* -label:<name>, or the clause alone when --query is absent or empty
C17_FilterIsBasePlusClause ==
    QueryBuilt =>
        LET query == probe.query
            name == probe.downloaded_label_name
        IN IF ~TruthyStr(name) THEN probe.result = query
           ELSE \E clause \in ExclusionClauses(name.text) :
                    probe.result = Str(IF TruthyStr(query)
                                       THEN query.text \o <<" ">> \o clause
                                       ELSE clause)

\* C17 witness: both forms have been built, the clause after a query of two
\* terms and the clause alone after an empty one
C17_Witness ==
    /\ QueryBuilt
    /\ probe.downloaded_label_name = Str(<<"d">>)
    /\ \/ /\ probe.query = Str(<<"q", " ", "r">>)
          /\ probe.result = Str(<<"q", " ", "r", " ">> \o MinusLabel \o <<"d">>)
       \/ /\ probe.query = Str(<<>>)
          /\ probe.result = Str(MinusLabel \o <<"d">>)

\* the whitespace characters among LabelChars
Whitespace == {" ", "\t"}

\* C18: the clause has the done-label name in double quotes exactly when the
\* name contains a whitespace character
C18_QuotedIffWhitespace ==
    (QueryBuilt /\ TruthyStr(probe.downloaded_label_name)) =>
        LET name == probe.downloaded_label_name.text
            before == IF TruthyStr(probe.query) THEN probe.query.text \o <<" ">> ELSE <<>>
        IN probe.result.text =
              before \o MinusLabel \o (IF Range(name) \cap Whitespace # {}
                                        THEN <<"\"">> \o name \o <<"\"">>
                                        ELSE name)

\* the parts of that content type, in walk order
LeavesOfType(msg, ctype) == SelectSeq(msg.leaves, LAMBDA part : part.ctype = ctype)

\* what the first part of that type decodes to, None when it does not decode
FirstLeafContent(msg, ctype) ==
    LET part == LeavesOfType(msg, ctype)[1]
    IN IF part.content_ok THEN part.content
       ELSE IF part.payload_ok THEN part.decoded
       ELSE None

\* C19: of two or more text/plain parts the first in walk order gives the
\* text body, and no later one does; the same for text/html and the HTML
\* body
C19_FirstLeafOnly ==
    (probe.fn = "extract_bodies" /\ probe.returned) =>
        /\ Len(LeavesOfType(probe.msg, "text/plain")) >= 2 =>
              probe.bodies.text_body = FirstLeafContent(probe.msg, "text/plain")
        /\ Len(LeavesOfType(probe.msg, "text/html")) >= 2 =>
              probe.bodies.html_body = FirstLeafContent(probe.msg, "text/html")

\* C20: every part with a filename that is not one of Outlook's and a
\* payload that decodes is among the attachments, with its bytes, whatever
\* its Content-Disposition, in a multipart message and as the one part of a
\* message that is not multipart
C20_NamedLeafIsAttachment ==
    (probe.fn = "extract_attachments" /\ probe.returned) =>
        \A i \in DOMAIN probe.msg.leaves :
            LET part == probe.msg.leaves[i]
            IN (Truthy(part.filename) /\ ~IsJunk(part.filename) /\ part.payload_ok) =>
                  \E k \in DOMAIN probe.attachments :
                      /\ probe.attachments[k].filename = part.filename
                      /\ probe.attachments[k].data = part.data

\* extract_attachments has returned
Extracted == probe.fn = "extract_attachments" /\ probe.returned

\* the filenames among FileLeaves that contain one of the two tokens, in
\* lower case at the start of the name and in upper case inside it
NamesWithJunkToken == {"eml*oecustomproperty_x", "x_EML*OECUSTOMHTML"}

\* C21: no attachment that extract_attachments returns has a filename with
\* one of the two tokens in it, in whatever letter case, whatever the
\* Content-Disposition of the part, multipart message or not
C21_NoJunkAttachment ==
    Extracted =>
        \A k \in DOMAIN probe.attachments :
            probe.attachments[k].filename.base \notin NamesWithJunkToken

\* C21 witness: of two parts sent as attachments with payloads that decode,
\* the one with the token in lower case is left out and the other returned
C21_Witness ==
    /\ Extracted
    /\ probe.msg.multipart
    /\ Len(probe.msg.leaves) = 2
    /\ probe.msg.leaves[1] =
          Leaf("application/pdf", "attachment", FName("eml*oecustomproperty_x", <<>>, ""),
               TRUE, "bin", TRUE, <<1>>, "bin")
    /\ probe.msg.leaves[2] = FileLeaf("attachment", FName("f", <<>>, ".pdf"), <<1>>)
    /\ Len(probe.attachments) = 1
    /\ probe.attachments[1].filename = FName("f", <<>>, ".pdf")

\* C22: the attachments of one message are saved to paths that differ from
\* one another, each file holds the data of its own attachment, and
\* attachments that all have the filename name.ext are saved as name.ext,
\* name_1.ext, name_2.ext and so on; also when a filename already has the
\* form name_N.ext
C22_DistinctPaths ==
    probe.fn = "save_attachment" =>
        /\ \A i, j \in DOMAIN probe.paths : i # j => probe.paths[i] # probe.paths[j]
        /\ DOMAIN probe.files = Range(probe.paths)
        /\ \A i \in DOMAIN probe.paths : probe.files[probe.paths[i]] = i
        /\ (\A i \in DOMAIN probe.filenames : probe.filenames[i] = FName("f", <<>>, ".pdf")) =>
              \A i \in DOMAIN probe.paths :
                  probe.paths[i].name =
                      IF i = 1 THEN FName("f", <<>>, ".pdf") ELSE FName("f", <<i - 1>>, ".pdf")

\* C22 witness: f.pdf, f.pdf and f_1.pdf have been saved, the third as
\* f_1_1.pdf beside the f_1.pdf that the second became
C22_Witness ==
    /\ probe.fn = "save_attachment"
    /\ probe.filenames = <<FName("f", <<>>, ".pdf"), FName("f", <<>>, ".pdf"),
                           FName("f", <<1>>, ".pdf")>>
    /\ Len(probe.paths) = 3
    /\ probe.paths[2].name = FName("f", <<1>>, ".pdf")
    /\ probe.paths[3].name = FName("f", <<1, 1>>, ".pdf")

\* list_message_ids has returned
Listed == probe.fn = "list_message_ids" /\ probe.returned

\* C23: with a maximum M, 0 included, the ids returned are the first M of
\* the transport's ids in page order (all of them when there are fewer);
\* with no maximum they are all the ids in page order
C23_ListHonoursMax ==
    Listed =>
        IF probe.max_results.given
        THEN probe.ids = SubSeq(probe.all, 1, Min(probe.max_results.n, Len(probe.all)))
        ELSE probe.ids = probe.all

\* the form YYYY/MM/DD HH:MM
FixedDateForm(text) ==
    /\ Len(text) = 16
    /\ text[5] = "/" /\ text[8] = "/" /\ text[11] = " " /\ text[14] = ":"
    /\ \A i \in (1..16) \ {5, 8, 11, 14} : text[i] \in Range(DigitChars)

\* C24: after an ingestion, the stored date has the form YYYY/MM/DD HH:MM
\* when the Date header of that ingestion parses, and is the header as it
\* was when it does not; a header that is there is never stored as null,
\* whatever the ingestions before stored
C24_DateFixedOrRaw ==
    (probe.fn = "normalize_date" /\ probe.k >= 1) =>
        LET raw_date == probe.raw_dates[probe.k]
        IN /\ raw_date.given => probe.date.given
           /\ (raw_date.given /\ parsedate_to_datetime(raw_date.text).ok) =>
                 FixedDateForm(probe.date.text)
           /\ (raw_date.given /\ ~parsedate_to_datetime(raw_date.text).ok) =>
                 probe.date = raw_date

\* the requests of that method among those received
RequestsOf(method) == SelectSeq(probe.requests, LAMBDA r : r.method = method)

\* C25: for a label that exists create_label_if_not_exists returns its id
\* and sends no create request; for one that does not it sends one create
\* request, for that name, and returns the id the transport gave the new
\* label; add_label_to_message sends one modify request, for that message,
\* that adds that label id and does nothing else
C25_CreateOnceAddOnce ==
    (probe.fn = "labeling" /\ probe.step # "create") =>
        /\ IF probe.label_name \in DOMAIN probe.labels_before
           THEN /\ probe.label_id = probe.labels_before[probe.label_name]
                /\ RequestsOf("labels.create") = <<>>
                /\ probe.labels = probe.labels_before
           ELSE /\ RequestsOf("labels.create") = <<CreateRequest(probe.label_name)>>
                /\ probe.label_id = probe.labels[probe.label_name]
                /\ probe.label_id \in CreatedIds
        /\ probe.step = "add" => RequestsOf("messages.modify") = <<>>
        /\ probe.step = "done" =>
              /\ RequestsOf("messages.modify") =
                    << [method |-> "messages.modify", name |-> None, id |-> probe.msg_id,
                        body |-> <<"addLabelIds", <<probe.label_id>> >>] >>
              /\ probe.msg_labels = probe.msg_labels_before \cup {probe.label_id}

\* C25 witness: the label did not exist, was created with one create
\* request, and the message that had another label now has both
C25_Witness ==
    /\ probe.fn = "labeling"
    /\ probe.step = "done"
    /\ probe.label_name = "D"
    /\ probe.labels_before = ("A" :> "idA")
    /\ probe.msg_labels_before = {"idA"}
    /\ probe.label_id = "Label_1"
    /\ probe.msg_labels = {"idA", "Label_1"}
    /\ Len(probe.requests) = 3

\* C26: once a run has ended, after the export or by an interrupt, the
\* committed index has, for every message the run has processed to the end
\* with all its attachments saved and recorded, one attachment row for each
\* of its attachment files; the last message of the run included
C26_CloseDiscardsNothing ==
    ended \in {"exported", "interrupted"} =>
        \A m \in Mids :
            (hist[m].run = run /\ hist[m].clean) =>
                /\ Described(AttachmentRows(dbDisk, m)) = hist[m].expect
                /\ \A path \in DOMAIN fsAtt :
                      (path.mid = m /\ path.dir = hist[m].label) =>
                          \E k \in DOMAIN AttachmentRows(dbDisk, m) :
                              AttachmentRows(dbDisk, m)[k].file_path = path

\* C27: a commit made while one message is processed changes the committed
\* rows of that message only, and when the processing of a message begins
\* the index has no write that is not committed: no transaction reaches
\* from one message into the next
C27_NoTransactionSpansMessages ==
    /\ [][dbDisk' # dbDisk =>
            \A m \in Mids \ {msg_ids[idx]} :
                /\ EmailRows(dbDisk', m) = EmailRows(dbDisk, m)
                /\ LabelRows(dbDisk', m) = LabelRows(dbDisk, m)
                /\ AttachmentRows(dbDisk', m) = AttachmentRows(dbDisk, m)]_vars
    /\ [](pc = "fetch" => dbConn = dbDisk)

\* C28: a message gets the done-label only when every attachment extracted
\* from it has been written to a file and has its row in the index; a
\* message with an attachment that could not be saved or recorded is not
\* marked
C28_MarkedOnlyWithAllAttachments ==
    [][marked' # marked =>
          /\ marked' = marked \cup {msg_ids[idx]}
          /\ LET rows == AttachmentRows(dbConn, msg_ids[idx])
             IN /\ Described(rows) = Described(loc.attachments)
                /\ \A k \in DOMAIN rows :
                      /\ rows[k].file_path \in DOMAIN fsAtt
                      /\ fsAtt[rows[k].file_path] = loc.attachments[k].data]_vars

\* C29: while a message is processed no .eml file, no attachment file and no
\* index row is written before its extraction has completed; and when the
\* extraction of a message fails, no .eml file of it is on disk without an
\* emails row of it in the index
C29_ExtractBeforePersist ==
    /\ [][(pc \in LoopSteps /\ pc' # "idle" /\
              (fsEml' # fsEml \/ fsAtt' # fsAtt \/ dbConn' # dbConn \/ dbDisk' # dbDisk))
           => loc.extracted]_vars
    /\ [][(pc = "parse" /\ \E line \in log' \ log : line.kind = "error")
           => \A p \in DOMAIN fsEml :
                  p[2] = msg_ids[idx] => EmailRows(dbDisk, msg_ids[idx]) # {}]_vars

\* C30: a part sent as attachment or inline, with a filename that is not
\* one of Outlook's, is among the attachments returned whenever its payload
\* decodes, to no bytes too; and every attachment returned has a filename
\* that is not empty and the length of its data as its size
C30_OnlyUndecodableSkipped ==
    Extracted =>
        /\ \A i \in DOMAIN probe.msg.leaves :
              LET part == probe.msg.leaves[i]
              IN (/\ part.disp \in {"attachment", "inline"}
                  /\ Truthy(part.filename)
                  /\ part.filename.base \notin NamesWithJunkToken
                  /\ part.payload_ok)
                 => \E k \in DOMAIN probe.attachments :
                        /\ probe.attachments[k].filename = part.filename
                        /\ probe.attachments[k].data = part.data
        /\ \A k \in DOMAIN probe.attachments :
              /\ Truthy(probe.attachments[k].filename)
              /\ probe.attachments[k].size = Len(probe.attachments[k].data)

\* C31: whatever the filenames of the attachments of m1, "../m2/..."
\* included, its ingestion leaves the attachment files of every other id as
\* they were: none created, none overwritten, none deleted; every file it
\* writes is in A/attachments/m1
C31_FilesStayInOwnFolder ==
    probe.fn = "attachment files" =>
        /\ \A path \in DOMAIN probe.files :
              path.mid # "m1" =>
                  /\ path \in DOMAIN probe.files_before
                  /\ probe.files[path] = probe.files_before[path]
        /\ \A path \in DOMAIN probe.files_before :
              path.mid # "m1" => path \in DOMAIN probe.files

====
